---- MODULE Spec2Model ----
(***************************************************************************)
(* Skill Scorecard: the scoring engine (scorer.js), its four analyzers     *)
(* (security.js, docs.js, code.js, maintenance.js) and the command line    *)
(* entry point (cli.js), as a state machine.                               *)
(*                                                                         *)
(* One run of main() is modelled: main calls scoreSkill, scoreSkill        *)
(* launches the four analyzers, every analyzer promise settles in its own  *)
(* step (in any order), the continuation after `await Promise.all` merges  *)
(* the four slots, and main's continuation maps the outcome to the exit    *)
(* status.                                                                 *)
(***************************************************************************)
EXTENDS Integers, Sequences, FiniteSets, TLC

VARIABLES
    pc,          \* position of main/scoreSkill: start, awaiting, resolved, rejected, exited
    target,      \* what the path argument names on disk: "dir" or "missing"
    settled,     \* the analyzer promises (after their .catch) that have settled
    threw,       \* the analyzers whose own promise rejected
    slot,        \* per category, the value the wrapped promise fulfilled with
    mergedFrom,  \* the categories that had settled when the merge ran
    result,      \* what scoreSkill produced: none yet, a ScoreResult, or an error
    exitCode,    \* the status passed to process.exit (meaningful once pc = "exited")
    world,       \* the signals of a fixed target, or NoWorld when every probe may see anything
    first,       \* the outcome of an earlier run over the same target, if there was one
    now,         \* the wall clock, in ticks
    startTime,   \* scoreSkill's startTime
    attempts     \* how often each analyzer, the HTTP request and the scanner were started

vars == <<pc, target, settled, threw, slot, mergedFrom, result, exitCode,
          world, first, now, startTime, attempts>>

(***************************************************************************)
(* Bounds of the model.                                                    *)
(***************************************************************************)
MaxFindings == 2     \* findings in one scanner report
MaxFiles == 1        \* entries in the target directory tree
MaxClock == 3        \* ticks of the clock during one run
MaxLater == 2        \* days between two runs over the same target
MaxReportFindings == 3   \* findings in one scanner report, when only the report varies
MaxCodeFiles == 27   \* code files in the tree, when only their error handling varies
MaxWalkFiles == 2    \* entries in the tree, when they are of every kind

(***************************************************************************)
(* JavaScript values that reach the arithmetic: numbers, functions (an     *)
(* inherited property read off an object literal), strings (the result of  *)
(* `+` on a non-number) and undefined.                                     *)
(***************************************************************************)
Num(n) == [t |-> "number", v |-> n]
Fn == [t |-> "function", v |-> 0]
Str == [t |-> "string", v |-> 0]
Undef == [t |-> "undefined", v |-> 0]

IsNum(x) == x.t = "number"

\* ToBoolean: 0 and undefined are falsy; a function and a non-empty string are truthy
Truthy(x) == IF x.t = "number" THEN x.v # 0 ELSE x.t # "undefined"

\* a || b
JsOr(a, b) == IF Truthy(a) THEN a ELSE b

\* a + b: numeric addition on two numbers, string concatenation otherwise
JsAdd(a, b) == IF IsNum(a) /\ IsNum(b) THEN Num(a.v + b.v) ELSE Str

\* a >= n for a number n: a string that is not numeric converts to NaN, and NaN >= n is false
JsGe(a, n) == IsNum(a) /\ a.v >= n

Max(a, b) == IF a >= b THEN a ELSE b

\* Math.round(a / b) for a >= 0, b > 0 (halves round up)
Round(a, b) == (2 * a + b) \div (2 * b)

Categories == {"security", "documentation", "codeQuality", "maintenance"}

(***************************************************************************)
(* security.js                                                             *)
(***************************************************************************)
\* scoreMap: the object literal of checkClawdex
scoreMap == [s \in {"benign", "unknown", "malicious"} |->
               CASE s = "benign" -> 20
                 [] s = "unknown" -> 10
                 [] s = "malicious" -> 0]

\* property names every object literal inherits from Object.prototype
ObjectPrototypeKeys == {"constructor"}

\* scoreMap[status]
scoreMapLookup(status) ==
    IF status \in DOMAIN scoreMap THEN Num(scoreMap[status])
    ELSE IF status \in ObjectPrototypeKeys THEN Fn
    ELSE Undef

\* what fetch() can produce: a network error, a non-2xx response, or a JSON
\* body whose status field is a string ("" stands for a missing status)
StatusValues == {"benign", "unknown", "malicious", "suspicious", "constructor", ""}
ClawdexResponses ==
    {[kind |-> "neterr", status |-> ""], [kind |-> "http", status |-> ""]}
    \cup {[kind |-> "ok", status |-> s] : s \in StatusValues}

checkClawdex(resp) ==
    IF resp.kind = "neterr" THEN [status |-> "error", score |-> Num(10), error |-> TRUE]
    ELSE IF resp.kind = "http" THEN [status |-> "unknown", score |-> Num(10), error |-> TRUE]
    ELSE LET status == IF resp.status = "" THEN "unknown" ELSE resp.status
         IN [status |-> status,
             score |-> JsOr(scoreMapLookup(status), Num(10)),
             error |-> FALSE]

\* severity strings a finding can carry ("" stands for a finding without one)
Severities == {"critical", "HIGH", "medium", "low", "", "info"}

\* severities compared as they are written
toLowerCase_CaseSensitive(s) == s

toLowerCase(s) == IF s = "HIGH" THEN "high" ELSE s

IssueKeys == {"critical", "high", "medium", "low"}

\* the forEach over results.findings: issues[severity]++ when issues has the key
CountIssues(findings) ==
    [k \in IssueKeys |->
        Cardinality({i \in 1..Len(findings) :
            toLowerCase(IF findings[i] = "" THEN "low" ELSE findings[i]) = k})]

NoIssues == [k \in IssueKeys |-> 0]

\* what the scanner subprocess can produce: exec rejects (not found, non-zero
\* exit), stdout is not JSON, or a report with a list of findings
ScannerOutputs(sevs, n) ==
    {[kind |-> "fail", findings |-> <<>>], [kind |-> "badjson", findings |-> <<>>]}
    \cup {[kind |-> "json", findings |-> f] :
            f \in UNION {[1..k -> sevs] : k \in 0..n}}

\* a parse failure scored like a scanner that could not be run
runCiscoScanner_ParseFailureAsUnavailable(out) ==
    IF out.kind \in {"fail", "badjson"}
      THEN [score |-> 10, issues |-> NoIssues, error |-> TRUE,
            scannerAvailable |-> out.kind = "badjson"]
    ELSE LET issues == CountIssues(out.findings)
         IN [score |-> Max(0, 20 - issues.critical * 10 - issues.high * 5
                                 - issues.medium * 2 - issues.low * 1),
             issues |-> issues, error |-> FALSE, scannerAvailable |-> TRUE]

runCiscoScanner(out) ==
    IF out.kind = "fail"
      THEN [score |-> 10, issues |-> NoIssues, error |-> TRUE, scannerAvailable |-> FALSE]
    ELSE IF out.kind = "badjson"
      THEN [score |-> 15, issues |-> NoIssues, error |-> TRUE, scannerAvailable |-> TRUE]
    ELSE LET issues == CountIssues(out.findings)
         IN [score |-> Max(0, 20 - issues.critical * 10 - issues.high * 5
                                 - issues.medium * 2 - issues.low * 1),
             issues |-> issues, error |-> FALSE, scannerAvailable |-> TRUE]

analyzeSecurity(resp, out) ==
    LET clawdexResult == checkClawdex(resp)
        ciscoResult == runCiscoScanner(out)
    IN [score |-> JsAdd(clawdexResult.score, Num(ciscoResult.score)),
        max |-> 40,
        details |-> [clawdex |-> [status |-> clawdexResult.status,
                                  score |-> clawdexResult.score,
                                  max |-> 20,
                                  error |-> clawdexResult.error],
                     cisco |-> [score |-> ciscoResult.score,
                                max |-> 20,
                                issues |-> ciscoResult.issues,
                                error |-> ciscoResult.error,
                                scannerAvailable |-> ciscoResult.scannerAvailable]]]

(***************************************************************************)
(* docs.js                                                                 *)
(***************************************************************************)
\* A documentation file as analyzeDocs sees it: whether access() succeeds,
\* the length of what readFileSafe returns (0 for null or ''), and whether
\* the content matches one of the hasExamples / hasReferences patterns.
AbsentFile == [exists |-> FALSE, len |-> 0, ex |-> FALSE, refs |-> FALSE]

DocFiles(lens, sections) ==
    {AbsentFile}
    \cup {[exists |-> TRUE, len |-> n, ex |-> e, refs |-> r] :
            n \in lens, e \in sections, r \in sections}

SkillMdThreshold == 500
ReadmeThreshold == 300

\* the `exists && content && content.length > threshold` test and the
\* details entry each branch writes: only the else branch writes `sufficient`
docDetail(file, threshold) ==
    IF file.exists /\ file.len > 0 /\ file.len > threshold
      THEN [exists |-> TRUE, length |-> file.len]
      ELSE [exists |-> file.exists, length |-> file.len, sufficient |-> FALSE]

docPoints(file, threshold, pts) ==
    IF file.exists /\ file.len > 0 /\ file.len > threshold THEN pts ELSE 0

\* hasExamples / hasReferences on (skillContent || '') + (readmeContent || '')
hasExamples(skill, readme) == skill.ex \/ readme.ex
hasReferences(skill, readme) == skill.refs \/ readme.refs

analyzeDocs(skill, readme) ==
    [score |-> Num(docPoints(skill, SkillMdThreshold, 10)
                   + docPoints(readme, ReadmeThreshold, 5)
                   + (IF hasExamples(skill, readme) THEN 3 ELSE 0)
                   + (IF hasReferences(skill, readme) THEN 2 ELSE 0)),
     max |-> 20,
     details |-> [skillMd |-> docDetail(skill, SkillMdThreshold),
                  readmeMd |-> docDetail(readme, ReadmeThreshold),
                  examples |-> hasExamples(skill, readme),
                  references |-> hasReferences(skill, readme)]]

(***************************************************************************)
(* code.js                                                                 *)
(***************************************************************************)
\* An entry of the directory tree: the directory it sits in ("" for the
\* target itself), its extension, and what the content checks find in it:
\* the number of findHardcodedSecrets matches, hasErrorHandling,
\* calculateCommentDensity (per cent), followsNamingConventions.
SkipDirs == {"node_modules", ".git", ".vscode", "dist", "build"}
CodeExts == {"js", "mjs", "cjs", "ts", "sh", "py", "md"}

\* The tree is a multiset of entries: tree[k] is the number of entries of kind k.
\* the recursive walk: pruned directories are not entered, other extensions are dropped
getAllFiles(tree) ==
    [k \in DOMAIN tree |-> IF k.dir \notin SkipDirs /\ k.ext \in CodeExts THEN tree[k] ELSE 0]

\* the files the loop of analyzeCode analyses: markdown files are skipped
\* right after they are read, before any check
\* markdown files analysed like the others
analyzedOf_MarkdownToo(files) == files

analyzedOf(files) == [k \in DOMAIN files |-> IF k.ext # "md" THEN files[k] ELSE 0]

\* the sum over the files of weight[k], the loop's accumulators
RECURSIVE SumOver(_, _, _)
SumOver(kinds, files, weight) ==
    IF kinds = {} THEN 0
    ELSE LET k == CHOOSE x \in kinds : TRUE
         IN files[k] * weight[k] + SumOver(kinds \ {k}, files, weight)

Total(files, weight) == SumOver(DOMAIN files, files, weight)

analyzeCode(tree) ==
    LET files == getAllFiles(tree)
        analyzed == analyzedOf(files)
        analyzedFiles == Total(analyzed, [k \in DOMAIN tree |-> 1])
        found == Total(analyzed, [k \in DOMAIN tree |-> k.secrets])
        filesWithErrorHandling == Total(analyzed, [k \in DOMAIN tree |-> IF k.eh THEN 1 ELSE 0])
        totalCommentDensity == Total(analyzed, [k \in DOMAIN tree |-> k.density])
        filesWithGoodNaming == Total(analyzed, [k \in DOMAIN tree |-> IF k.naming THEN 1 ELSE 0])
        \* ratio >= 0.3, avg >= 10, ratio >= 0.5, each with 0 for no analysed file
        ehOk == analyzedFiles > 0 /\ 10 * filesWithErrorHandling >= 3 * analyzedFiles
        commentsOk == analyzedFiles > 0 /\ totalCommentDensity >= 10 * analyzedFiles
        namingOk == analyzedFiles > 0 /\ 2 * filesWithGoodNaming >= analyzedFiles
    IN [score |-> Num((IF found = 0 THEN 10 ELSE 0) + (IF ehOk THEN 5 ELSE 0)
                      + (IF commentsOk THEN 3 ELSE 0) + (IF namingOk THEN 2 ELSE 0)),
        max |-> 20,
        details |-> [analyzedFiles |-> analyzedFiles,
                     totalFiles |-> Total(files, [k \in DOMAIN tree |-> 1]),
                     secrets |-> [found |-> found, clean |-> found = 0],
                     errorHandling |->
                        [filesWithHandling |-> filesWithErrorHandling,
                         \* Math.round(errorHandlingRatio * 100)
                         ratio |-> IF analyzedFiles > 0
                                     THEN Round(100 * filesWithErrorHandling, analyzedFiles)
                                     ELSE 0],
                     \* Math.round(avgCommentDensity * 10) / 10, kept in tenths
                     comments |-> [averageDensityTenths |->
                                     IF analyzedFiles > 0
                                       THEN Round(10 * totalCommentDensity, analyzedFiles)
                                       ELSE 0],
                     naming |-> [filesWithGoodNaming |-> filesWithGoodNaming,
                                 ratio |-> IF analyzedFiles > 0
                                             THEN Round(100 * filesWithGoodNaming, analyzedFiles)
                                             ELSE 0]]]

(***************************************************************************)
(* maintenance.js                                                          *)
(***************************************************************************)
\* What the probes of analyzeMaintenance find: whether .git is accessible,
\* what `git log -1 --format=%ct` gives ("fail": exec rejects; "unparsable":
\* it succeeds with output parseInt cannot read; or the age of the last
\* commit in days),
\* whether checkVersionInfo finds a version artefact, and the length in
\* days of the six calendar months that end at the instant of the run.
RepoStates(ages, spans) ==
    [git : BOOLEAN, log : {"fail", "unparsable"}, age : {0}, version : BOOLEAN, span : spans]
    \cup [git : BOOLEAN, log : {"date"}, age : ages, version : BOOLEAN, span : spans]

\* getLastCommitDate consulted whether or not .git is accessible
lastCommitOf_AlwaysAsked(repo) == IF repo.log # "fail" THEN repo.log ELSE "null"

\* lastCommit = isGit ? await getLastCommitDate(skillPath) : null
lastCommitOf(repo) == IF repo.git /\ repo.log # "fail" THEN repo.log ELSE "null"

\* parseInt gives NaN, new Date(NaN) is an Invalid Date, which is truthy,
\* and toISOString() on it throws a RangeError
analyzeMaintenanceThrows(repo) == lastCommitOf(repo) = "unparsable"

analyzeMaintenance(repo) ==
    LET lastCommit == lastCommitOf(repo)
        isRecent == repo.age < repo.span
    IN [score |-> Num((IF repo.git THEN 5 ELSE 0)
                      + (IF lastCommit = "date" /\ isRecent THEN 10 ELSE 0)
                      + (IF repo.version THEN 5 ELSE 0)),
        max |-> 20,
        details |-> [git |-> [exists |-> repo.git],
                     lastCommit |-> IF lastCommit = "date"
                                      THEN [daysAgo |-> repo.age, isRecent |-> isRecent]
                                      ELSE [exists |-> FALSE],
                     version |-> [exists |-> repo.version]]]

(***************************************************************************)
(* scorer.js                                                               *)
(***************************************************************************)
\* calculateGrade with strict comparisons at the thresholds
calculateGrade_Strict(score) ==
    IF JsGe(score, 91) THEN "A"
    ELSE IF JsGe(score, 81) THEN "B"
    ELSE IF JsGe(score, 71) THEN "C"
    ELSE IF JsGe(score, 61) THEN "D"
    ELSE "F"

calculateGrade(score) ==
    IF JsGe(score, 90) THEN "A"
    ELSE IF JsGe(score, 80) THEN "B"
    ELSE IF JsGe(score, 70) THEN "C"
    ELSE IF JsGe(score, 60) THEN "D"
    ELSE "F"

\* the object the .catch of scoreSkill substitutes for a rejected analyzer
Fallback(c) ==
    [score |-> Num(0), max |-> IF c = "security" THEN 40 ELSE 20, error |-> TRUE]

HasDetails(component) == "details" \in DOMAIN component

\* recommendations.push(...) when the condition holds; n is the number the
\* template string interpolates
Rec(cond, rule, n) == IF cond THEN <<[rule |-> rule, n |-> n]>> ELSE <<>>

\* x.f read as a boolean, undefined when the object has no such property
Flag(obj, f) == f \in DOMAIN obj /\ obj[f]

\* x.f > n, false when the property is undefined
FieldGt(obj, f, n) == f \in DOMAIN obj /\ obj[f] > n

\* obj.f, with an object without properties standing for undefined
Undefined == [undefined |-> TRUE]
Opt(obj, f) == IF f \in DOMAIN obj THEN obj[f] ELSE Undefined

\* x.f < n, false when the property is undefined
FieldLt(obj, f, n) == f \in DOMAIN obj /\ obj[f] < n

\* Reading a property of undefined throws a TypeError: `details` of a
\* component without details, and `clawdex.status` / `cisco.issues` of a
\* security component without them (every other read goes through `?.` or
\* stops at a property of `details`). Otherwise the twelve rules are
\* evaluated in source order.
generateRecommendations(breakdown) ==
    IF \/ \E c \in Categories : ~HasDetails(breakdown[c])
       \/ {"clawdex", "cisco"} \ DOMAIN breakdown.security.details # {}
      THEN [threw |-> TRUE, list |-> <<>>]
      ELSE
        LET sec == breakdown.security.details
            doc == breakdown.documentation.details
            code == breakdown.codeQuality.details
            mnt == breakdown.maintenance.details
            lastCommit == Opt(mnt, "lastCommit")
        IN [threw |-> FALSE,
            list |->
                Rec(sec.clawdex.status = "malicious", "malicious", 0)
             \o Rec(sec.cisco.issues.critical > 0, "critical", sec.cisco.issues.critical)
             \o Rec(sec.cisco.issues.high > 0, "high", sec.cisco.issues.high)
             \o (IF ~Flag(Opt(doc, "skillMd"), "exists")
                   THEN Rec(TRUE, "addSkillMd", 0)
                   ELSE Rec(~Flag(Opt(doc, "skillMd"), "sufficient"), "expandSkillMd", 0))
             \o Rec(~Flag(doc, "examples"), "examples", 0)
             \o Rec(~Flag(doc, "references"), "references", 0)
             \o Rec(FieldGt(Opt(code, "secrets"), "found", 0), "secrets",
                    IF FieldGt(Opt(code, "secrets"), "found", 0) THEN code.secrets.found ELSE 0)
             \o Rec(FieldLt(Opt(code, "errorHandling"), "ratio", 30), "errorHandling", 0)
             \o Rec(FieldLt(Opt(code, "comments"), "averageDensityTenths", 100), "comments", 0)
             \o Rec(~Flag(Opt(mnt, "git"), "exists"), "git", 0)
             \o Rec(FieldGt(lastCommit, "daysAgo", 180), "lastCommit",
                    IF "daysAgo" \in DOMAIN lastCommit THEN lastCommit.daysAgo ELSE 0)
             \o Rec(~Flag(Opt(mnt, "version"), "exists"), "version", 0)]

\* Promise.all over promises without their .catch: the first rejection ends the wait
AllSettled_RejectEndsWait == settled = Categories \/ threw # {}

\* Promise.all over the four wrapped promises: the await resumes when every
\* one of them has fulfilled (none can reject, each carries a .catch)
AllSettled == settled = Categories

\* scannedAt taken from startTime
scannedAtOf_ScanStart == startTime

\* scannedAt: new Date() in the object scoreSkill returns, read when the
\* result is built (the continuation runs within one tick of the clock)
scannedAtOf == now

\* the body of scoreSkill after the await
ScoreResultOf(breakdown) ==
    LET overallScore ==
            JsAdd(JsAdd(JsAdd(breakdown.security.score, breakdown.documentation.score),
                        breakdown.codeQuality.score),
                  breakdown.maintenance.score)
        recs == generateRecommendations(breakdown)
    IN IF recs.threw
         THEN [kind |-> "error"]
         ELSE [kind |-> "ok",
               scannedAt |-> scannedAtOf,
               scanDurationMs |-> now - startTime,
               overallScore |-> overallScore,
               maxScore |-> 100,
               grade |-> calculateGrade(overallScore),
               breakdown |-> breakdown,
               recommendations |-> recs.list]

(***************************************************************************)
(* cli.js                                                                  *)
(***************************************************************************)
exitCodes == [g \in {"A", "B", "C", "D", "F"} |-> IF g \in {"A", "B", "C"} THEN 0 ELSE 1]

\* exitCodes[result.grade] || 1
exitStatus(grade) == JsOr(Num(exitCodes[grade]), Num(1)).v

(***************************************************************************)
(* The inputs of one run.                                                  *)
(***************************************************************************)
SkillMdLens == {500, 501}
ReadmeLens == {301}
CommitAges == {10, 182}
SixMonthSpans == {181, 184}
Statuses == {"benign", "malicious", "constructor", ""}
Responses == {r \in ClawdexResponses : r.kind = "ok" => r.status \in Statuses}
ReportSeverities == {"critical", "HIGH"}

FileKinds ==
    {[dir |-> "", ext |-> "js", secrets |-> 0, eh |-> TRUE, density |-> 20, naming |-> TRUE],
     [dir |-> "", ext |-> "js", secrets |-> 1, eh |-> FALSE, density |-> 0, naming |-> FALSE],
     [dir |-> "", ext |-> "md", secrets |-> 1, eh |-> FALSE, density |-> 0, naming |-> FALSE]}

Trees(kinds, n) ==
    {tree \in [kinds -> 0..n] : Total(tree, [k \in kinds |-> 1]) <= n}

Pending == [state |-> "pending"]
NoResult == [kind |-> "none"]
NoWorld == [kind |-> "none"]
NoFirst == [kind |-> "none"]

\* nothing started yet
NoAttempts == [analyzers |-> [c \in Categories |-> 0], fetch |-> 0, exec |-> 0]

\* after a failed request or a failed subprocess the catch block returns the
\* degraded result: there is no loop around either call
fetchRetries_OnError(resp) == IF resp.kind \in {"neterr", "http"} THEN 1 ELSE 0
fetchRetries(resp) == 0
execRetries(out) == 0

\* what each probe of the target can see: anything from the input sets of
\* this section, or the one value of a fixed target
ResponsesSeen == IF world = NoWorld THEN Responses ELSE {world.resp}
OutputsSeen ==
    IF world = NoWorld THEN ScannerOutputs(ReportSeverities, MaxFindings) ELSE {world.out}
SkillMdSeen == IF world = NoWorld THEN DocFiles(SkillMdLens, BOOLEAN) ELSE {world.skill}
ReadmeSeen == IF world = NoWorld THEN DocFiles(ReadmeLens, {FALSE}) ELSE {world.readme}
TreesSeen == IF world = NoWorld THEN Trees(FileKinds, MaxFiles) ELSE {world.tree}

\* the repository as a run sees it: a run that comes `later.days` after the
\* first one finds the same commit that much older, and its own six-month span
RepoAt(repo, later) ==
    [repo EXCEPT !.age = IF repo.log = "date" THEN @ + later.days ELSE @,
                 !.span = later.span]
ReposSeen ==
    IF world = NoWorld THEN RepoStates(CommitAges, SixMonthSpans)
    ELSE IF first = NoFirst THEN {world.repo}
    ELSE {RepoAt(world.repo, first.later)}

\* Promise.all fulfils with the values in the order of the array it was
\* given, so the destructuring binds each analyzer's value to its own name.
\* The variant binds them in the order the promises settle.
CategoryOrder == <<"security", "documentation", "codeQuality", "maintenance">>
ResultIndex_CompletionOrder(c, done) == CategoryOrder[Cardinality(done) + 1]
ResultIndex(c, done) == c

Init ==
    /\ pc = "start"
    /\ target \in {"dir", "missing"}
    /\ settled = {}
    /\ threw = {}
    /\ slot = [c \in Categories |-> Pending]
    /\ mergedFrom = {}
    /\ result = NoResult
    /\ exitCode = 0
    /\ world = NoWorld
    /\ first = NoFirst
    /\ now = 0
    /\ startTime = 0
    /\ attempts = NoAttempts

(***************************************************************************)
(* main                                                                    *)
(***************************************************************************)
\* no argument, --help or -h: printHelp() and process.exit(0)
Help ==
    /\ pc = "start"
    /\ pc' = "exited"
    /\ exitCode' = 0
    /\ UNCHANGED <<target, settled, threw, slot, mergedFrom, result,
                   world, first, now, startTime, attempts>>

\* main resolves the path and calls scoreSkill, which reads the clock and
\* runs up to the await: the four analyzers are started whatever the path
\* names, and analyzeSecurity starts the request and the scanner at once
Dispatch ==
    /\ pc = "start"
    /\ pc' = "awaiting"
    /\ startTime' = now
    /\ attempts' = [analyzers |-> [c \in Categories |-> attempts.analyzers[c] + 1],
                    fetch |-> attempts.fetch + 1,
                    exec |-> attempts.exec + 1]
    /\ UNCHANGED <<target, settled, threw, slot, mergedFrom, result, exitCode,
                   world, first, now>>

\* an analyzer promise settles; a rejection is replaced by the fallback
Settle(c, rejects, value) ==
    /\ pc = "awaiting"
    /\ c \notin settled
    /\ settled' = settled \cup {c}
    /\ threw' = IF rejects THEN threw \cup {c} ELSE threw
    /\ slot' = [slot EXCEPT ![ResultIndex(c, settled)] =
                                IF rejects THEN Fallback(c) ELSE value]
    /\ UNCHANGED <<pc, target, mergedFrom, result, exitCode,
                   world, first, now, startTime>>

\* checkClawdex and runCiscoScanner catch whatever goes wrong in them, so
\* analyzeSecurity always fulfils
SettleSecurity ==
    \E resp \in ResponsesSeen, out \in OutputsSeen :
        /\ attempts' = [attempts EXCEPT !.fetch = @ + fetchRetries(resp),
                                        !.exec = @ + execRetries(out)]
        /\ Settle("security", FALSE, analyzeSecurity(resp, out))

\* readFileSafe turns every read error into an empty string
SettleDocs ==
    \E skill \in SkillMdSeen, readme \in ReadmeSeen :
        /\ target = "missing" => skill = AbsentFile /\ readme = AbsentFile
        /\ Settle("documentation", FALSE, analyzeDocs(skill, readme))
        /\ UNCHANGED attempts

\* getAllFiles and the loop over the files skip what they cannot read
SettleCode ==
    \E tree \in TreesSeen :
        /\ target = "missing" => Total(tree, [k \in DOMAIN tree |-> 1]) = 0
        /\ Settle("codeQuality", FALSE, analyzeCode(tree))
        /\ UNCHANGED attempts

SettleMaintenance ==
    \E repo \in ReposSeen :
        /\ target = "missing" => ~repo.git /\ ~repo.version
        /\ Settle("maintenance", analyzeMaintenanceThrows(repo), analyzeMaintenance(repo))
        /\ UNCHANGED attempts

\* the continuation of scoreSkill after `await Promise.all([...])`
Merge ==
    /\ pc = "awaiting"
    /\ AllSettled
    /\ mergedFrom' = settled
    /\ result' = ScoreResultOf(slot)
    /\ pc' = IF result'.kind = "ok" THEN "resolved" ELSE "rejected"
    /\ UNCHANGED <<target, settled, threw, slot, exitCode,
                   world, first, now, startTime, attempts>>

\* the continuation of main after `await scoreSkill(...)`: the try body
\* prints and exits with the grade's status, the catch exits with 1
Exit ==
    /\ pc \in {"resolved", "rejected"}
    /\ pc' = "exited"
    /\ exitCode' = IF pc = "resolved" THEN exitStatus(result.grade) ELSE 1
    /\ UNCHANGED <<target, settled, threw, slot, mergedFrom, result,
                   world, first, now, startTime, attempts>>

Next ==
    \/ Help
    \/ Dispatch
    \/ SettleSecurity
    \/ SettleDocs
    \/ SettleCode
    \/ SettleMaintenance
    \/ Merge
    \/ Exit

Spec == Init /\ [][Next]_vars

(***************************************************************************)
(* A run over one fixed target while the clock advances.                   *)
(***************************************************************************)
\* no file of any kind
EmptyTree == [k \in FileKinds |-> 0]

\* a SKILL.md of 600 characters with an examples section and no references,
\* no README, a benign reputation, a scanner report without findings, no
\* code files, a git repository whose last commit is 10 days old, and a
\* version file
ScenarioB ==
    [resp |-> [kind |-> "ok", status |-> "benign"],
     out |-> [kind |-> "json", findings |-> <<>>],
     skill |-> [exists |-> TRUE, len |-> 600, ex |-> TRUE, refs |-> FALSE],
     readme |-> AbsentFile,
     tree |-> EmptyTree,
     repo |-> [git |-> TRUE, log |-> "date", age |-> 10, version |-> TRUE, span |-> 181]]

\* the state main starts in, for a target that is one of `worlds`
InitOver(worlds) ==
    /\ pc = "start"
    /\ target = "dir"
    /\ settled = {}
    /\ threw = {}
    /\ slot = [c \in Categories |-> Pending]
    /\ mergedFrom = {}
    /\ result = NoResult
    /\ exitCode = 0
    /\ world \in worlds
    /\ first = NoFirst
    /\ now = 0
    /\ startTime = 0
    /\ attempts = NoAttempts

\* time passes between the steps of the run
Tick ==
    /\ pc # "exited"
    /\ now < MaxClock
    /\ now' = now + 1
    /\ UNCHANGED <<pc, target, settled, threw, slot, mergedFrom, result, exitCode,
                   world, first, startTime, attempts>>

InitScenario == InitOver({ScenarioB})

NextScenario ==
    \/ Next
    \/ Tick

SpecScenario == InitScenario /\ [][NextScenario]_vars

(***************************************************************************)
(* Two runs over the same target.                                          *)
(***************************************************************************)
\* scenario B with every state of the repository
TwiceWorlds ==
    {[ScenarioB EXCEPT !.repo = repo] : repo \in RepoStates(CommitAges, SixMonthSpans)}

\* how much later a second run can come, and the six-month span it then
\* finds: at the same instant the span is the same
LaterRuns(repo) ==
    {later \in [days : 0..MaxLater, span : SixMonthSpans] :
        later.days = 0 => later.span = repo.span}

\* scoreSkill is called again for the same target: nothing of the first run
\* is kept but what it returned
Rerun ==
    /\ pc = "exited"
    /\ mergedFrom # {}
    /\ first = NoFirst
    /\ \E later \in LaterRuns(world.repo) :
          first' = [kind |-> "done", result |-> result, later |-> later]
    /\ pc' = "start"
    /\ settled' = {}
    /\ threw' = {}
    /\ slot' = [c \in Categories |-> Pending]
    /\ mergedFrom' = {}
    /\ result' = NoResult
    /\ exitCode' = 0
    /\ attempts' = NoAttempts
    /\ UNCHANGED <<target, world, now, startTime>>

InitTwice == InitOver(TwiceWorlds)

NextTwice ==
    \/ Next
    \/ Rerun

SpecTwice == InitTwice /\ [][NextTwice]_vars

(***************************************************************************)
(* Runs over targets that differ in what the two security probes find.     *)
(***************************************************************************)
\* scenario B with a reputation that is known or cannot be looked up, and
\* with every outcome of the scanner
SecurityWorlds ==
    {[ScenarioB EXCEPT !.resp = resp, !.out = out] :
        resp \in {r \in ClawdexResponses : r.kind = "neterr" \/ r.status = "benign"},
        out \in ScannerOutputs(Severities, MaxReportFindings)}

InitSecurity == InitOver(SecurityWorlds)

SpecSecurity == InitSecurity /\ [][Next]_vars

(***************************************************************************)
(* Runs over targets that differ in their directory tree.                  *)
(***************************************************************************)
\* code files with and without error handling
HandlingKinds == {k \in FileKinds : k.ext = "js"}

\* the entries of FileKinds, an entry of a pruned directory and an entry
\* with an extension the walk drops, each holding a secret
WalkKinds ==
    FileKinds
    \cup {[dir |-> "node_modules", ext |-> "js", secrets |-> 1, eh |-> FALSE,
           density |-> 0, naming |-> FALSE],
          [dir |-> "", ext |-> "txt", secrets |-> 1, eh |-> FALSE,
           density |-> 0, naming |-> FALSE]}

\* scenario B with many code files, or with a few entries of every kind
CodeWorlds ==
    {[ScenarioB EXCEPT !.tree = tree] :
        tree \in Trees(HandlingKinds, MaxCodeFiles) \cup Trees(WalkKinds, MaxWalkFiles)}

InitCode == InitOver(CodeWorlds)

SpecCode == InitCode /\ [][Next]_vars

(***************************************************************************)
(* Properties                                                              *)
(***************************************************************************)
Returned == result.kind = "ok"
Merged == mergedFrom # {}
RuleNames(list) == {list[i].rule : i \in 1..Len(list)}

\* C1: whatever analyzers reject, scoreSkill resolves with a ScoreResult in
\* which every rejecting analyzer's category is the score-0 fallback and
\* every other category is exactly what its analyzer returned.
C1_PartialFailureIsolation ==
    Merged =>
        /\ Returned
        /\ \A c \in Categories :
              result.breakdown[c] = IF c \in threw THEN Fallback(c) ELSE slot[c]

\* C2: in every returned ScoreResult overallScore is the numeric sum of the
\* four component scores and lies in 0..100, and maxScore is 100.
C2_OverallIsSumInRange ==
    Returned =>
        /\ \A c \in Categories : IsNum(result.breakdown[c].score)
        /\ IsNum(result.overallScore)
        /\ result.overallScore.v = result.breakdown.security.score.v
                                   + result.breakdown.documentation.score.v
                                   + result.breakdown.codeQuality.score.v
                                   + result.breakdown.maintenance.score.v
        /\ result.overallScore.v \in 0..100
        /\ result.maxScore = 100

\* C3: on the integers 0..100 calculateGrade gives A iff score >= 90, B iff
\* 80..89, C iff 70..79, D iff 60..69, F iff below 60, and the grade of every
\* returned ScoreResult is the letter of that result's own overallScore.
GradeBand(g) ==
    CASE g = "A" -> 90..100
      [] g = "B" -> 80..89
      [] g = "C" -> 70..79
      [] g = "D" -> 60..69
      [] g = "F" -> 0..59

\* (the first conjunct does not depend on the state: it is evaluated once,
\* in the initial states)
C3_GradeThresholds ==
    /\ pc = "start" =>
          \A n \in 0..100 : \A g \in {"A", "B", "C", "D", "F"} :
              calculateGrade(Num(n)) = g <=> n \in GradeBand(g)
    /\ Returned /\ IsNum(result.overallScore) /\ result.overallScore.v \in 0..100
          => result.overallScore.v \in GradeBand(result.grade)

C3_Witness ==
    Returned /\ result.overallScore = Num(80) /\ result.grade = "B"

\* C4: the merge (sum, grade, recommendations) runs only when all four
\* analyzer promises have settled, also when one of them rejected early.
C4_MergeAfterAllSettled ==
    /\ Merged => mergedFrom = Categories
    /\ result # NoResult => settled = Categories /\ mergedFrom = Categories
    /\ \A c \in Categories : c \notin settled => result = NoResult

C4_Witness ==
    Merged /\ threw # {} /\ threw # Categories /\ mergedFrom = Categories

\* C5: the reputation sub-score is 20 for benign, 0 for malicious, and 10
\* for unknown, a missing or unrecognized status, a non-2xx response and a
\* network error.
C5_ReputationTiers ==
    ("security" \in settled /\ "security" \notin threw) =>
        LET clawdex == slot.security.details.clawdex
        IN clawdex.score = Num(CASE clawdex.status = "benign" -> 20
                                 [] clawdex.status = "malicious" -> 0
                                 [] OTHER -> 10)

\* C6: for a path that names no readable directory scoreSkill rejects before
\* any analyzer is dispatched, and returns no ScoreResult.
C6_BadPathRejects ==
    target = "missing" => ~Returned

\* C7: the recommendations of a returned ScoreResult follow the fixed
\* priority sequence, with no rule twice and at most 11 entries.
PriorityRank(rule) ==
    CASE rule = "malicious" -> 1
      [] rule = "critical" -> 2
      [] rule = "high" -> 3
      [] rule \in {"addSkillMd", "expandSkillMd"} -> 4
      [] rule = "examples" -> 5
      [] rule = "references" -> 6
      [] rule = "secrets" -> 7
      [] rule = "errorHandling" -> 8
      [] rule = "comments" -> 9
      [] rule = "git" -> 10
      [] rule = "lastCommit" -> 11
      [] rule = "version" -> 12

C7_RecommendationOrder ==
    Returned =>
        LET recs == result.recommendations
        IN /\ \A i, j \in 1..Len(recs) :
                i < j => PriorityRank(recs[i].rule) < PriorityRank(recs[j].rule)
           /\ Len(recs) <= 11

C7_Witness ==
    Returned /\ Len(result.recommendations) = 11

\* C8: SKILL.md missing gives the Add recommendation and not Expand; SKILL.md
\* present at or under 500 characters gives Expand and not Add; SKILL.md
\* present above 500 characters gives neither.
C8_SkillMdRecommendation ==
    Returned =>
        LET skillMd == result.breakdown.documentation.details.skillMd
            rules == RuleNames(result.recommendations)
        IN /\ ~skillMd.exists => "addSkillMd" \in rules /\ "expandSkillMd" \notin rules
           /\ skillMd.exists /\ skillMd.length <= SkillMdThreshold
                => "expandSkillMd" \in rules /\ "addSkillMd" \notin rules
           /\ skillMd.exists /\ skillMd.length > SkillMdThreshold
                => "expandSkillMd" \notin rules /\ "addSkillMd" \notin rules

\* C9: the process exits 0 for grades A, B and C, 1 for grades D and F, and
\* 1 when scoreSkill rejects.
C9_ExitStatusFromGrade ==
    (pc = "exited" /\ Merged) =>
        exitCode = IF Returned /\ result.grade \in {"A", "B", "C"} THEN 0 ELSE 1

\* C10: the breakdown of every returned ScoreResult has exactly the four
\* category keys, and each component's score is an integer between 0 and
\* its max, 40 for security and 20 for the others.
C10_BreakdownShape ==
    Returned =>
        /\ DOMAIN result.breakdown = Categories
        /\ \A c \in Categories :
              LET component == result.breakdown[c]
              IN /\ component.max = IF c = "security" THEN 40 ELSE 20
                 /\ IsNum(component.score)
                 /\ component.score.v \in 0..component.max

\* the security component of a run whose reputation lookup failed (network
\* error or non-2xx) and whose scanner failed too
SecurityDone == "security" \in settled /\ "security" \notin threw
BothProbesFailed ==
    /\ SecurityDone
    /\ slot.security.details.clawdex.error
    /\ slot.security.details.cisco.error

\* C11 as stated: when the lookup fails and the scanner fails in any way
\* (not found, non-zero exit, stdout that is not JSON), analyzeSecurity
\* fulfils with 10 + 10 = 20 and a returned overallScore is a number >= 0.
C11_DoubleFailureIsTwenty ==
    /\ "security" \notin threw
    /\ BothProbesFailed =>
          /\ slot.security.score = Num(20)
          /\ Returned => IsNum(result.overallScore) /\ result.overallScore.v >= 0

\* C11, amended: when the lookup fails, analyzeSecurity fulfils with
\* 10 + 10 = 20 if the scanner could not be run (not found or non-zero exit)
\* and with 10 + 15 = 25 if it ran but its output was not JSON; a returned
\* overallScore is then a number >= 0.
C11_DoubleFailureFallback ==
    /\ "security" \notin threw
    /\ BothProbesFailed =>
          /\ slot.security.score =
                Num(IF slot.security.details.cisco.scannerAvailable THEN 25 ELSE 20)
          /\ Returned => IsNum(result.overallScore) /\ result.overallScore.v >= 0

C11_Witness ==
    /\ BothProbesFailed
    /\ slot.security.details.cisco.scannerAvailable
    /\ Returned
    /\ result.breakdown.security.score = Num(25)

\* C12: for scenario B (SKILL.md of 600 characters with an examples section
\* and no references, benign reputation, no findings, no code files, last
\* commit 10 days old, version file) the result has security 40,
\* documentation 13 and maintenance 20, and its recommendation list holds
\* exactly one entry, the one asking for references.
C12_ScenarioB ==
    (world = ScenarioB /\ Returned) =>
        /\ result.breakdown.security.score = Num(40)
        /\ result.breakdown.documentation.score = Num(13)
        /\ result.breakdown.maintenance.score = Num(20)
        /\ Len(result.recommendations) = 1
        /\ RuleNames(result.recommendations) = {"references"}

\* C14 as stated: scannedAt is the instant the scan started, the one
\* scanDurationMs is measured from, so scannedAt + scanDurationMs is not
\* later than the instant scoreSkill returns.
C14_ScannedAtIsStart ==
    Returned =>
        /\ result.scannedAt = startTime
        /\ result.scannedAt + result.scanDurationMs <= now

\* C14, amended: scannedAt is the instant the result is built, after every
\* analyzer has settled: it is not earlier than the start instant (taken
\* before the analyzers are dispatched) plus scanDurationMs, and not later
\* than the instant scoreSkill returns.
C14_ScannedAtIsEnd ==
    Returned =>
        /\ result.scanDurationMs >= 0
        /\ result.scannedAt >= startTime + result.scanDurationMs
        /\ result.scannedAt <= now

C14_Witness ==
    /\ pc = "resolved"
    /\ result.scanDurationMs > 0
    /\ result.scannedAt = now
    /\ result.scannedAt > startTime

\* both runs over the target have returned a result
BothReturned == first # NoFirst /\ first.result.kind = "ok" /\ Returned

FindingsAmong(findings, names) ==
    Cardinality({i \in 1..Len(findings) : findings[i] \in names})

\* C15: for a report with c critical, h high, m medium and l low findings
\* (severities matched without regard to case, a finding without severity
\* counted as low, any other severity not counted) the scanner sub-score is
\* max(0, 20 - 10c - 5h - 2m - l); the sub-score is never negative and never
\* above 20, and it is 10 when the scanner cannot be run or exits non-zero.
C15_ScannerSubScore ==
    (SecurityDone /\ world # NoWorld) =>
        LET findings == world.out.findings
            cisco == slot.security.details.cisco
            c == FindingsAmong(findings, {"critical"})
            h == FindingsAmong(findings, {"HIGH"})
            m == FindingsAmong(findings, {"medium"})
            l == FindingsAmong(findings, {"low", ""})
            expected == 20 - 10 * c - 5 * h - 2 * m - l
        IN /\ cisco.score \in 0..20
           /\ world.out.kind = "json" =>
                 cisco.score = IF expected < 0 THEN 0 ELSE expected
           /\ world.out.kind = "fail" => cisco.score = 10

C15_Witness ==
    /\ SecurityDone
    /\ world # NoWorld
    /\ world.out.kind = "json"
    /\ world.out.findings = <<"critical", "HIGH", "critical">>
    /\ slot.security.details.cisco.score = 0

\* C16: for a maintenance component with a known last commit, the
\* recommendation to update the repository is emitted exactly when the
\* component did not count the commit as recent (isRecent is false).
C16_LastCommitRecommendation ==
    Returned =>
        LET lastCommit == result.breakdown.maintenance.details.lastCommit
        IN "isRecent" \in DOMAIN lastCommit =>
              ("lastCommit" \in RuleNames(result.recommendations) <=> ~lastCommit.isRecent)

\* C17: the recommendation to improve error handling is in the list exactly
\* when analyzeCode did not award the 5 error-handling points, that is when
\* filesWithErrorHandling / analyzedFiles < 0.3 (the ratio being 0 when no
\* file was analysed), for every 0 <= filesWithErrorHandling <= analyzedFiles.
C17_ErrorHandlingRecommendation ==
    Returned =>
        LET code == result.breakdown.codeQuality.details
            awarded == /\ code.analyzedFiles > 0
                       /\ 10 * code.errorHandling.filesWithHandling >= 3 * code.analyzedFiles
        IN "errorHandling" \in RuleNames(result.recommendations) <=> ~awarded

\* the entries of the target's tree that the walk reaches
ReachedKinds ==
    {k \in DOMAIN world.tree :
        /\ world.tree[k] > 0
        /\ k.dir \notin {"node_modules", ".git", ".vscode", "dist", "build"}
        /\ k.ext \in {"js", "mjs", "cjs", "ts", "sh", "py", "md"}}

CodeDone == world # NoWorld /\ "codeQuality" \in settled /\ "codeQuality" \notin threw

\* C18 as stated: analyzeCode awards the 10 no-secrets points exactly when
\* no file the walk reaches holds a secret pattern; a secret in a .md file
\* withholds the points and is counted in details.secrets.found.
C18_SecretsInEveryWalkedFile ==
    CodeDone =>
        LET secrets == slot.codeQuality.details.secrets
        IN /\ secrets.clean <=> \A k \in ReachedKinds : k.secrets = 0
           /\ secrets.found = 0 <=> \A k \in ReachedKinds : k.secrets = 0

\* C18, amended: analyzeCode awards the 10 no-secrets points exactly when no
\* file the walk reaches, other than a .md file, holds a secret pattern; .md
\* files are collected by the walk but skipped before the check, so a secret
\* in one neither withholds the points nor is counted in details.secrets.found.
C18_SecretsInAnalysedFiles ==
    CodeDone =>
        LET secrets == slot.codeQuality.details.secrets
            clean == \A k \in ReachedKinds : k.ext # "md" => k.secrets = 0
        IN /\ secrets.clean <=> clean
           /\ secrets.found = 0 <=> clean
           /\ slot.codeQuality.score.v >= 10 * (IF clean THEN 1 ELSE 0)
           /\ slot.codeQuality.score.v <= 10 + 10 * (IF clean THEN 1 ELSE 0)

C18_Witness ==
    /\ CodeDone
    /\ \E k \in ReachedKinds : k.ext = "md" /\ k.secrets > 0
    /\ slot.codeQuality.details.secrets = [found |-> 0, clean |-> TRUE]
    /\ slot.codeQuality.details.totalFiles = 1

\* C19: nothing is retried. Within one scoreSkill invocation each of the
\* four analyzers is invoked exactly once, and the reputation request and
\* the scanner subprocess are each attempted exactly once, also when they
\* fail: no invocation, no attempt before the dispatch, and one of each from
\* the dispatch on.
C19_NoRetries ==
    /\ pc = "start" => attempts = NoAttempts
    /\ (pc = "exited" /\ mergedFrom = {}) => attempts = NoAttempts
    /\ (pc \in {"awaiting", "resolved", "rejected"} \/ mergedFrom # {}) =>
          /\ \A c \in Categories : attempts.analyzers[c] = 1
          /\ attempts.fetch = 1
          /\ attempts.exec = 1

C19_Witness ==
    /\ pc = "exited"
    /\ BothProbesFailed
    /\ "maintenance" \in threw
    /\ attempts.fetch = 1
    /\ attempts.exec = 1
    /\ \A c \in Categories : attempts.analyzers[c] = 1
====
